---- MODULE Spec2Model ----
(***************************************************************************)
(* Trinity Vibe core runtime: the symbol store (VIBE_SPACE), the logical   *)
(* clock (temporalCoord), capability tokens, transformation, reversion     *)
(* and tape pruning, modelled from trinity-vibe-core.js.                   *)
(*                                                                         *)
(* JavaScript strings are sequences of UTF-16 code units; they are         *)
(* modelled as sequences of character codes. Symbols are mutable objects   *)
(* and live in a heap (a sequence indexed by allocation order), so that    *)
(* the Symbol Space holds references. Tokens and capability Sets are never *)
(* mutated by the runtime and are modelled by value.                       *)
(***************************************************************************)
EXTENDS Integers, Sequences, FiniteSets, TLC

VARIABLES temporalCoord, VIBE_SPACE, symbols, tokens, maxTapeLength, last, budget, clears

vars == <<temporalCoord, VIBE_SPACE, symbols, tokens, maxTapeLength, last, budget, clears>>

(***************************************************************************)
(* Bounds of the model                                                     *)
(***************************************************************************)
\* symbols allocated in a run that never clears the Symbol Space
MaxSymbols == 4
\* symbols allocated in a run that may clear the Symbol Space
MaxClearedSymbols == 3
\* symbols allocated in a run in which the host creates tokens
MaxGatedSymbols == 2
\* tokens the host creates (by construction or attenuation) in such a run
MaxTokens == 2
\* tokens the host creates in a run that may also clear the Symbol Space
MaxClearedTokens == 1
\* symbols constructed in a run over the wider set of values
MaxIdentitySymbols == 3
\* tokens of an attenuation chain, the root included
MaxChainTokens == 3
\* symbols constructed, each advancing the clock, in a run over token chains
MaxTokenSymbols == 2
\* calls of clearVibeSpace in a run that may clear
MaxClears == 1
\* largest steps argument given to vibeRevert
MaxSteps == 3
MaxPruneSymbols == 5
MaxModifiedSymbols == 3
\* symbols constructed in a run that reverts structurally
MaxStructuralSymbols == 4
\* symbols constructed in a run whose tokens expire within the run
MaxExpirySymbols == 4
\* an expiry a few ticks away that a host may give a token
LongExpiry == 3
MaxTapeEntries == 2
\* the small tape ceiling the host may configure instead of the default
SmallTapeLength == 2

(***************************************************************************)
(* Program constants                                                       *)
(***************************************************************************)
\* TAPE_PRUNING_CONFIG.maxTapeLength
DefaultMaxTapeLength == 1000
\* VibeToken constructor: expiry = temporalCoord + 1000
DefaultExpiryOffset == 1000
\* VibeToken.attenuate: Math.min(this.expiry, temporalCoord + 100)
AttenuateExpiryOffset == 100
\* VibeToken constructor: permissions = 0b1111
DefaultPermissions == 15
\* opMap.write
WriteBit == 2
\* a read-only token, as in the capability test: new VibeToken(0b0001)
ReadOnlyPermissions == 1

(***************************************************************************)
(* Strings                                                                 *)
(***************************************************************************)
S_object == <<111, 98, 106, 101, 99, 116>>
S_number == <<110, 117, 109, 98, 101, 114>>
S_function == <<102, 117, 110, 99, 116, 105, 111, 110>>
S_count == <<99, 111, 117, 110, 116>>
S_b == <<98>>

\* Array.prototype.join(''): the concatenation of the parts
RECURSIVE Join(_)
Join(parts) ==
    IF parts = <<>> THEN <<>> ELSE Head(parts) \o Join(Tail(parts))

\* Number.prototype.toString() of a non-negative integer: decimal digits
RECURSIVE NumStr(_)
NumStr(n) ==
    IF n < 10 THEN <<48 + n>> ELSE NumStr(n \div 10) \o <<48 + (n % 10)>>

(***************************************************************************)
(* Values: numbers and flat objects whose fields hold numbers. An object   *)
(* is the sequence of its <<key, number>> entries in insertion order.      *)
(***************************************************************************)
Num(n) == [t |-> "number", n |-> n, f |-> <<>>]
Obj(f) == [t |-> "object", n |-> 0, f |-> f]
\* a function value; n tells one function from another
Fn(n) == [t |-> "function", n |-> n, f |-> <<>>]

\* the typeof operator
TypeOf(v) ==
    CASE v.t = "number" -> S_number
      [] v.t = "function" -> S_function
      [] OTHER -> S_object

RECURSIVE FieldsJSON(_)
FieldsJSON(f) ==
    IF f = <<>> THEN <<>>
    ELSE <<34>> \o Head(f)[1] \o <<34, 58>> \o NumStr(Head(f)[2])
         \o (IF Len(f) > 1 THEN <<44>> ELSE <<>>) \o FieldsJSON(Tail(f))

\* JSON.stringify(value); of a function it is undefined, which join('')
\* renders as the empty string
JSONStringify(v) ==
    CASE v.t = "number" -> NumStr(v.n)
      [] v.t = "function" -> <<>>
      [] OTHER -> <<123>> \o FieldsJSON(v.f) \o <<125>>

(***************************************************************************)
(* vibeHash: a 32-bit rolling hash. The int32 accumulator is kept as two   *)
(* 16-bit halves so that no intermediate leaves the machine integers.      *)
(***************************************************************************)
Half == 65536

\* hash = ((hash << 5) - hash) + char; hash = hash & hash
HashStep(h, c) ==
    LET lo31 == 31 * h.lo + c
    IN  [hi |-> (31 * h.hi + (lo31 \div Half)) % Half, lo |-> lo31 % Half]

RECURSIVE HashFold(_, _)
HashFold(h, str) ==
    IF str = <<>> THEN h ELSE HashFold(HashStep(h, Head(str)), Tail(str))

\* Math.abs of the int32 whose two's complement halves are h
HashAbs(h) ==
    IF h.hi < Half \div 2 THEN h
    ELSE [hi |-> (Half - 1 - h.hi + (IF h.lo = 0 THEN 1 ELSE 0)) % Half,
          lo |-> (Half - h.lo) % Half]

HexDigit(d) == IF d < 10 THEN 48 + d ELSE 87 + d

RECURSIVE Hex(_)
Hex(n) == IF n < 16 THEN <<HexDigit(n)>> ELSE Hex(n \div 16) \o <<HexDigit(n % 16)>>

Hex4(n) ==
    <<HexDigit(n \div 4096), HexDigit((n \div 256) % 16),
      HexDigit((n \div 16) % 16), HexDigit(n % 16)>>

\* Number.prototype.toString(16)
ToString16(h) == IF h.hi = 0 THEN Hex(h.lo) ELSE Hex(h.hi) \o Hex4(h.lo)

vibeHash(inputs) ==
    ToString16(HashAbs(HashFold([hi |-> 0, lo |-> 0], Join(inputs))))

\* a fingerprint that mixes the clock in, as createVibeId does
SymbolHashClocked(v) == vibeHash(<<TypeOf(v), JSONStringify(v), NumStr(temporalCoord)>>)

\* this.hash = vibeHash(typeof value, JSON.stringify(value))
SymbolHash(v) == vibeHash(<<TypeOf(v), JSONStringify(v)>>)

(***************************************************************************)
(* Transformation requests. The engine inspects the request's `operation`  *)
(* property: a function, the string 'set', the string 'merge', or anything *)
(* else. A request that is itself a plain value (a number, or an object    *)
(* with no `operation` property) is kind "raw"; null/undefined is "null".  *)
(***************************************************************************)
NoValue == Num(0)

FnRequest(name) == [kind |-> "fn", fn |-> name, value |-> NoValue]
SetRequest(v) == [kind |-> "set", fn |-> "", value |-> v]
MergeRequest(d) == [kind |-> "merge", fn |-> "", value |-> d]
RawRequest(v) == [kind |-> "raw", fn |-> "", value |-> v]
NullRequest == [kind |-> "null", fn |-> "", value |-> NoValue]
\* a bare function, as modifySelf records it as the data of its tape operation
BareFunction(name) == [kind |-> "bare", fn |-> name, value |-> NoValue]

S_setPrefix ==
    <<123, 34, 111, 112, 101, 114, 97, 116, 105, 111, 110, 34, 58, 34, 115,
      101, 116, 34, 44, 34, 118, 97, 108, 117, 101, 34, 58>>
\* {"operation":"set"}
S_setOnly ==
    <<123, 34, 111, 112, 101, 114, 97, 116, 105, 111, 110, 34, 58, 34, 115,
      101, 116, 34, 125>>
S_mergePrefix ==
    <<123, 34, 111, 112, 101, 114, 97, 116, 105, 111, 110, 34, 58, 34, 109,
      101, 114, 103, 101, 34, 44, 34, 100, 97, 116, 97, 34, 58>>

\* JSON.stringify(operation.data) of a tape operation whose data is a request
\* (a function-valued property is omitted by JSON.stringify)
RequestJSON(req) ==
    CASE req.kind = "fn" -> <<123, 125>>
      [] req.kind = "set" ->
             IF req.value.t = "function" THEN S_setOnly
             ELSE S_setPrefix \o JSONStringify(req.value) \o <<125>>
      [] req.kind = "merge" -> S_mergePrefix \o JSONStringify(req.value) \o <<125>>
      [] OTHER -> JSONStringify(req.value)

\* JavaScript truthiness of a request held as tape data
Truthy(req) ==
    CASE req.kind = "null" -> FALSE
      [] req.kind = "raw" -> ~(req.value.t = "number" /\ req.value.n = 0)
      [] OTHER -> TRUE

(***************************************************************************)
(* Object helpers                                                          *)
(***************************************************************************)
HasKey(f, k) == \E i \in 1..Len(f) : f[i][1] = k

GetKey(f, k) == f[CHOOSE i \in 1..Len(f) : f[i][1] = k][2]

\* obj[k] = x: an existing key keeps its place, a new key goes last
PutKey(f, k, x) ==
    IF HasKey(f, k)
    THEN [i \in 1..Len(f) |-> IF f[i][1] = k THEN <<k, x>> ELSE f[i]]
    ELSE Append(f, <<k, x>>)

RECURSIVE PutAll(_, _)
PutAll(f, g) == IF g = <<>> THEN f ELSE PutAll(PutKey(f, Head(g)[1], Head(g)[2]), Tail(g))

\* {...a, ...b}: spreading a number contributes no property
Spread(a, b) == Obj(PutAll(PutAll(<<>>, a.f), b.f))

\* the test suite's increment: (data) => ({ count: data.count + 1 })
Increment(v) == Obj(<<<<S_count, GetKey(v.f, S_count) + 1>>>>)

ApplyFn(name, v) == Increment(v)

(***************************************************************************)
(* Structure descriptors and their diff. A descriptor is the sequence of   *)
(* its <<key, JSON text of the property>> entries in insertion order.      *)
(***************************************************************************)
S_type == <<116, 121, 112, 101>>
S_properties == <<112, 114, 111, 112, 101, 114, 116, 105, 101, 115>>
S_structure == <<115, 116, 114, 117, 99, 116, 117, 114, 101>>
S_value == <<118, 97, 108, 117, 101>>
S_homoiconic == <<104, 111, 109, 111, 105, 99, 111, 110, 105, 99>>
S_name == <<110, 97, 109, 101>>
S_arity == <<97, 114, 105, 116, 121>>
S_body == <<98, 111, 100, 121>>
S_true == <<116, 114, 117, 101>>
S_anonymous == <<97, 110, 111, 110, 121, 109, 111, 117, 115>>

\* JSON text of a string
Quote(str) == <<34>> \o str \o <<34>>

\* JSON text of Object.keys(value), without the brackets
RECURSIVE KeysJSON(_)
KeysJSON(f) ==
    IF f = <<>> THEN <<>>
    ELSE Quote(Head(f)[1]) \o (IF Len(f) > 1 THEN <<44>> ELSE <<>>) \o KeysJSON(Tail(f))

\* JSON text of the [k, typeof v] entries, without the braces; every field
\* holds a number
RECURSIVE TypesJSON(_)
TypesJSON(f) ==
    IF f = <<>> THEN <<>>
    ELSE Quote(Head(f)[1]) \o <<58>> \o Quote(S_number)
         \o (IF Len(f) > 1 THEN <<44>> ELSE <<>>) \o TypesJSON(Tail(f))

\* extractStructure(); a function's source text is rendered by the number
\* that tells it from other functions
extractStructure(v) ==
    CASE v.t = "function" ->
             <<<<S_type, Quote(S_function)>>, <<S_name, Quote(S_anonymous)>>,
               <<S_arity, NumStr(1)>>, <<S_body, Quote(NumStr(v.n))>>,
               <<S_homoiconic, S_true>>>>
      [] v.t = "object" ->
             <<<<S_type, Quote(S_object)>>,
               <<S_properties, <<91>> \o KeysJSON(v.f) \o <<93>>>>,
               <<S_structure, <<123>> \o TypesJSON(v.f) \o <<125>>>>,
               <<S_homoiconic, S_true>>>>
      [] OTHER ->
             <<<<S_type, Quote(S_number)>>, <<S_value, NumStr(v.n)>>,
               <<S_homoiconic, S_true>>>>

\* computeStructuralDiff(oldStructure, newStructure)
computeStructuralDiff(oldStructure, newStructure) ==
    LET added == SelectSeq(newStructure, LAMBDA e : ~HasKey(oldStructure, e[1]))
        changed == SelectSeq(newStructure,
                             LAMBDA e : /\ HasKey(oldStructure, e[1])
                                        /\ GetKey(oldStructure, e[1]) # e[2])
        removed == SelectSeq(oldStructure, LAMBDA e : ~HasKey(newStructure, e[1]))
    IN  [additions |-> [i \in 1..Len(added) |-> added[i][1]],
         modifications |->
             [i \in 1..Len(changed) |->
                 [path |-> changed[i][1],
                  oldValue |-> GetKey(oldStructure, changed[i][1]),
                  newValue |-> changed[i][2]]],
         removals |->
             [i \in 1..Len(removed) |-> [path |-> removed[i][1], value |-> removed[i][2]]]]

(***************************************************************************)
(* Capability tokens: a token is the record of its fields. vibeLevel is    *)
(* kept in thousandths (1.0 = 1000).                                       *)
(***************************************************************************)
\* VibeToken constructor: vibeLevel = 1.0
DefaultVibeLevel == 1000
\* newToken.vibeLevel = this.vibeLevel * 0.8
DecayNumerator == 8
DecayDenominator == 10

BitSet(n, bit) == (n \div bit) % 2 = 1

\* a ^ b in place of a & ~b
AndNotToggling(a, b) ==
    LET keep(bit) == IF BitSet(a, bit) # BitSet(b, bit) THEN bit ELSE 0
    IN  keep(1) + keep(2) + keep(4) + keep(8)

\* a & ~b on the four permission bits
AndNot(a, b) ==
    LET keep(bit) == IF BitSet(a, bit) /\ ~BitSet(b, bit) THEN bit ELSE 0
    IN  keep(1) + keep(2) + keep(4) + keep(8)

VibeToken(permissions, expiry, vibeLevel) ==
    [permissions |-> permissions, expiry |-> expiry, vibeLevel |-> vibeLevel,
     attenuationChain |-> <<>>]

\* isExpired() holding only at the instant of expiry
isExpiredAtInstant(tok, now) == now = tok.expiry

\* isExpired(): temporalCoord >= this.expiry
isExpired(tok, now) == now >= tok.expiry

\* can() without the expiry test
canWhenExpired(tok, bit, now) == BitSet(tok.permissions, bit)

\* can(operation), for the operation whose bit is `bit`
can(tok, bit, now) == ~isExpired(tok, now) /\ BitSet(tok.permissions, bit)

Min(a, b) == IF a < b THEN a ELSE b

\* an attenuation that copies the parent's permissions
attenuateKeeping(tok, restrictions, now) ==
    [permissions |-> tok.permissions,
     expiry |-> Min(tok.expiry, now + AttenuateExpiryOffset),
     vibeLevel |-> (tok.vibeLevel * DecayNumerator) \div DecayDenominator,
     attenuationChain |-> Append(tok.attenuationChain, restrictions)]

\* an attenuation that always grants the attenuation offset from now
attenuateFixedLifetime(tok, restrictions, now) ==
    [permissions |-> AndNot(tok.permissions, restrictions),
     expiry |-> now + AttenuateExpiryOffset,
     vibeLevel |-> (tok.vibeLevel * DecayNumerator) \div DecayDenominator,
     attenuationChain |-> Append(tok.attenuationChain, restrictions)]

\* an attenuation whose token keeps the level its constructor was handed,
\* the parent's expiry
attenuateLevelFromExpiry(tok, restrictions, now) ==
    [permissions |-> AndNot(tok.permissions, restrictions),
     expiry |-> Min(tok.expiry, now + AttenuateExpiryOffset),
     vibeLevel |-> tok.expiry * DefaultVibeLevel,
     attenuationChain |-> Append(tok.attenuationChain, restrictions)]

\* attenuate(restrictions): the new token
attenuate(tok, restrictions, now) ==
    [permissions |-> AndNot(tok.permissions, restrictions),
     expiry |-> Min(tok.expiry, now + AttenuateExpiryOffset),
     vibeLevel |-> (tok.vibeLevel * DecayNumerator) \div DecayDenominator,
     attenuationChain |-> Append(tok.attenuationChain, restrictions)]

(***************************************************************************)
(* Tape operations and pruning                                             *)
(***************************************************************************)
\* a tape operation left at the constructor's default position
TapeOperationAtOrigin(type, data, position) ==
    [type |-> type, data |-> data, position |-> 0, hasInverse |-> FALSE]

\* new TapeOperation(type, data, position); computeInverse() has no case for
\* 'transform', so such an operation's inverse is null
TapeOperation(type, data, position) ==
    [type |-> type, data |-> data, position |-> position,
     hasInverse |-> type \in {"write", "move", "mark", "jump", "restore"}]

\* String.prototype.includes
Includes(hay, needle) ==
    \E i \in 0..(Len(hay) - Len(needle)) :
        \A j \in 1..Len(needle) : hay[i + j] = needle[j]

\* String.prototype.slice(0, n)
SlicePrefix(str, n) == SubSeq(str, 1, Min(n, Len(str)))

\* relevance is kept in ten-thousandths
StructuralRelevanceThreshold == 3000
CausalAncestryWeight == 4000
DependencyRelevanceWeight == 3000
\* JSON.stringify(this.value).slice(0, 20)
StructuralSliceLength == 20
\* this.tapeOperations.slice(-10)
RecentWindow == 10
\* Math.floor(maxTapeLength * 0.8)
KeepNumerator == 8
KeepDenominator == 10

\* Math.exp(-age * 0.1) in ten-thousandths (rounded), for age 1..12; a tape
\* is never longer than the number of symbols of a run
TemporalDecayTable ==
    <<9048, 8187, 7408, 6703, 6065, 5488, 4966, 4493, 4066, 3679, 3329, 3012>>

TemporalDecay(age) == TemporalDecayTable[age]

isOperationStructurallyRelevant(sym, op) ==
    /\ op.type = "write"
    /\ Includes(RequestJSON(op.data),
                SlicePrefix(JSONStringify(sym.value), StructuralSliceLength))

isInCausalAncestry(sym, op) == op.position <= sym.coord

isDependentOperation(sym, op) ==
    LET n == Len(sym.tapeOperations)
        recentOps == SubSeq(sym.tapeOperations,
                            IF n > RecentWindow THEN n - RecentWindow + 1 ELSE 1, n)
    IN  \E i \in 1..Len(recentOps) :
            /\ Truthy(recentOps[i].data)
            /\ Truthy(op.data)
            /\ Includes(RequestJSON(recentOps[i].data), RequestJSON(op.data))

\* index is the 0-based array index
computeCausalRelevance(sym, op, index) ==
    LET age == Len(sym.tapeOperations) - index
    IN  TemporalDecay(age)
        + (IF isOperationStructurallyRelevant(sym, op)
           THEN StructuralRelevanceThreshold ELSE 0)
        + (IF isInCausalAncestry(sym, op) THEN CausalAncestryWeight ELSE 0)
        + (IF isDependentOperation(sym, op) THEN DependencyRelevanceWeight ELSE 0)

\* scored.sort((a, b) => b.relevance - a.relevance): a stable sort by
\* descending relevance; the result lists 1-based positions of the old tape
RECURSIVE SortByRelevance(_, _)
SortByRelevance(rel, todo) ==
    IF todo = {} THEN <<>>
    ELSE LET best == CHOOSE i \in todo :
                        \A j \in todo : rel[i] > rel[j] \/ (rel[i] = rel[j] /\ i <= j)
         IN  <<best>> \o SortByRelevance(rel, todo \ {best})

\* a pruning that keeps 80% of the tape it was given
pruneKeepingShareOfTape(sym, maxLen) ==
    LET tape == sym.tapeOperations
        n == Len(tape)
    IN  IF n <= maxLen THEN tape
        ELSE LET rel == [i \in 1..n |-> computeCausalRelevance(sym, tape[i], i - 1)]
                 order == SortByRelevance(rel, 1..n)
                 keepCount == (n * KeepNumerator) \div KeepDenominator
             IN  [k \in 1..Min(keepCount, n) |-> tape[order[k]]]

\* pruneTapeOperations(): the tape the symbol is left with
pruneTapeOperations(sym, maxLen) ==
    LET tape == sym.tapeOperations
        n == Len(tape)
    IN  IF n <= maxLen THEN tape
        ELSE LET rel == [i \in 1..n |-> computeCausalRelevance(sym, tape[i], i - 1)]
                 order == SortByRelevance(rel, 1..n)
                 keepCount == (maxLen * KeepNumerator) \div KeepDenominator
             IN  [k \in 1..Min(keepCount, n) |-> tape[order[k]]]

\* JSON.stringify of a bare function is undefined, and undefined.includes
\* throws a TypeError: scoring a 'write' operation that modifySelf recorded
\* makes pruneTapeOperations throw, once the tape is long enough to be pruned
pruneRaises(sym, maxLen) ==
    /\ Len(sym.tapeOperations) > maxLen
    /\ \E i \in 1..Len(sym.tapeOperations) :
           /\ sym.tapeOperations[i].type = "write"
           /\ sym.tapeOperations[i].data.kind = "bare"

(***************************************************************************)
(* State                                                                   *)
(*   temporalCoord   the logical clock                                     *)
(*   VIBE_SPACE      the Symbol Space: hash -> symbol (a heap index)       *)
(*   symbols         every VibeSymbol allocated so far (the host may still *)
(*                   hold a reference to any of them)                      *)
(*   tokens          the tokens the host created and holds                 *)
(*   maxTapeLength   TAPE_PRUNING_CONFIG.maxTapeLength                     *)
(*   last            the latest call: its kind, symbol argument, outcome   *)
(*                   and result                                            *)
(*   budget          what the run may do: how many symbols and host tokens *)
(*                   it allocates, how often it clears, which requests it  *)
(*                   uses, whether it reconfigures pruning, up to which    *)
(*                   tape length its symbols modify themselves (fixed at   *)
(*                   the start; it bounds the exploration)                 *)
(*   clears          the calls of clearVibeSpace so far                    *)
(***************************************************************************)
NoParent == <<>>

NoCall == [op |-> "none", sym |-> 0, result |-> 0, outcome |-> "none"]

EmptySpace == [h \in {} |-> 0]

Count(n) == Obj(<<<<S_count, n>>>>)

\* requests of the four effect modes, and the null request
AllRequests ==
    {FnRequest("inc"), SetRequest(Count(0)), MergeRequest(Obj(<<<<S_b, 1>>>>)),
     RawRequest(Num(5)), NullRequest}

\* the requests of the test suite's chains
ChainRequests == {FnRequest("inc"), SetRequest(Count(0)), NullRequest}

\* the runs explored: long chains under default capabilities, with the tape
\* ceiling reconfigured at will; shorter chains of all request modes with
\* the Symbol Space cleared in between; short runs with tokens and
\* capability Sets made by the host, without and with clearing
Budgets ==
    {[symbols |-> MaxSymbols, tokens |-> 0, clears |-> 0,
      requests |-> ChainRequests, configure |-> TRUE, selfWrites |-> 0],
     [symbols |-> MaxClearedSymbols, tokens |-> 0, clears |-> MaxClears,
      requests |-> AllRequests, configure |-> FALSE, selfWrites |-> 0],
     [symbols |-> MaxGatedSymbols, tokens |-> MaxTokens, clears |-> 0,
      requests |-> ChainRequests, configure |-> FALSE, selfWrites |-> 0],
     [symbols |-> MaxGatedSymbols, tokens |-> MaxClearedTokens, clears |-> MaxClears,
      requests |-> ChainRequests, configure |-> FALSE, selfWrites |-> 0]}

\* A call that returned without touching the runtime (a revert, a token
\* check, a blocked or failed transform) is explored as the last call of its
\* run: the runs that go on after it are the ones that go on from the state
\* it left as it was.
Open == last.outcome \notin {"read", "blocked", "raised"}

Init ==
    /\ budget \in Budgets
    /\ clears = 0
    /\ temporalCoord = 0
    /\ VIBE_SPACE = EmptySpace
    /\ symbols = <<>>
    /\ tokens = {}
    /\ maxTapeLength = DefaultMaxTapeLength
    /\ last = NoCall

\* a registration that keeps the symbol already stored under the hash
SpaceSetIfAbsent(space, hash, id) ==
    [h \in DOMAIN space \cup {hash} |-> IF h \in DOMAIN space THEN space[h] ELSE id]

\* a registration into a map of bounded capacity that evicts all but the
\* most recently constructed symbol's entry
SpaceSetEvicting(space, hash, id) ==
    [h \in {k \in DOMAIN space : space[k] >= id - 1} \cup {hash} |->
        IF h = hash THEN id ELSE space[h]]

\* VIBE_SPACE.set(hash, symbol)
SpaceSet(space, hash, id) ==
    [h \in DOMAIN space \cup {hash} |-> IF h = hash THEN id ELSE space[h]]

\* the constructor reading the clock after advancing it (++temporalCoord)
NewSymbolPreIncrement(value, capabilities, coord) ==
    [value |-> value,
     hash |-> SymbolHash(value),
     capabilities |-> capabilities,
     coord |-> coord + 1,
     history |-> <<>>,
     parentHash |-> NoParent,
     tapeOperations |-> <<>>,
     transformationMetadata |->
         [operation |-> NullRequest, operands |-> <<>>, structuralDiff |-> <<>>,
          tapeState |-> <<>>]]

\* the fields the VibeSymbol constructor gives a symbol
NewSymbol(value, capabilities, coord) ==
    [value |-> value,
     hash |-> SymbolHash(value),
     capabilities |-> capabilities,
     coord |-> coord,
     history |-> <<>>,
     parentHash |-> NoParent,
     tapeOperations |-> <<>>,
     transformationMetadata |->
         [operation |-> NullRequest, operands |-> <<>>, structuralDiff |-> <<>>,
          tapeState |-> <<>>]]

(***************************************************************************)
(* Inputs                                                                  *)
(***************************************************************************)
\* an explicit expiry a host may give a token
ShortExpiry == 1

\* values the host constructs symbols from
Values == {Count(0), Count(1)}

\* a function request is only given to a value its function is defined on
Applicable(req, value) ==
    req.kind = "fn" => (value.t = "object" /\ HasKey(value.f, S_count))

(***************************************************************************)
(* Token operations                                                        *)
(***************************************************************************)
\* new VibeToken(permissions, expiry)
CreateToken(permissions, expiry) ==
    /\ Open
    /\ Cardinality(tokens) < budget.tokens
    /\ VibeToken(permissions, expiry, DefaultVibeLevel) \notin tokens
    /\ tokens' = tokens \cup {VibeToken(permissions, expiry, DefaultVibeLevel)}
    /\ last' = [NoCall EXCEPT !.op = "token"]
    /\ UNCHANGED <<temporalCoord, VIBE_SPACE, symbols, maxTapeLength, budget, clears>>

\* new VibeToken(permissions, expiry, vibeLevel)
CreateTokenAt(permissions, expiry, vibeLevel) ==
    /\ Open
    /\ Cardinality(tokens) < budget.tokens
    /\ VibeToken(permissions, expiry, vibeLevel) \notin tokens
    /\ tokens' = tokens \cup {VibeToken(permissions, expiry, vibeLevel)}
    /\ last' = [NoCall EXCEPT !.op = "token"]
    /\ UNCHANGED <<temporalCoord, VIBE_SPACE, symbols, maxTapeLength, budget, clears>>

\* an attenuation that narrows the receiving token itself
AttenuateInPlace(tok, restrictions) ==
    /\ Open
    /\ Cardinality(tokens) < budget.tokens
    /\ attenuate(tok, restrictions, temporalCoord) \notin tokens
    /\ tokens' = (tokens \ {tok}) \cup {attenuate(tok, restrictions, temporalCoord)}
    /\ last' = [NoCall EXCEPT !.op = "attenuate"]
    /\ UNCHANGED <<temporalCoord, VIBE_SPACE, symbols, maxTapeLength, budget, clears>>

\* token.attenuate(restrictions)
Attenuate(tok, restrictions) ==
    /\ Open
    /\ Cardinality(tokens) < budget.tokens
    /\ attenuate(tok, restrictions, temporalCoord) \notin tokens
    /\ tokens' = tokens \cup {attenuate(tok, restrictions, temporalCoord)}
    /\ last' = [NoCall EXCEPT !.op = "attenuate"]
    /\ UNCHANGED <<temporalCoord, VIBE_SPACE, symbols, maxTapeLength, budget, clears>>

\* token.can('write')
CheckCan(tok) ==
    /\ Open
    /\ last' = [NoCall EXCEPT !.op = "can", !.outcome = "read",
                               !.result = IF can(tok, WriteBit, temporalCoord)
                                          THEN 1 ELSE 0]
    /\ UNCHANGED <<temporalCoord, VIBE_SPACE, symbols, tokens, maxTapeLength, budget, clears>>

(***************************************************************************)
(* Symbol construction                                                     *)
(***************************************************************************)
\* the constructor reading the clock without advancing it
AdvanceClockNever(now) == now

\* this.coord = temporalCoord++ : the clock after the constructor ran
AdvanceClock(now) == now + 1

\* a constructor that does not register the symbol
ConstructedUnregistered(sym) ==
    /\ symbols' = Append(symbols, sym)
    /\ temporalCoord' = AdvanceClock(temporalCoord)
    /\ VIBE_SPACE' = VIBE_SPACE

\* a construction after a pruning that cut the parent's tape as well, to the
\* length of the new symbol's tape
ConstructedTruncatingParent(sym) ==
    /\ symbols' = Append([i \in DOMAIN symbols |->
                             IF symbols[i].hash = sym.parentHash
                             THEN [symbols[i] EXCEPT
                                     !.tapeOperations =
                                         SubSeq(@, 1, Min(Len(@), Len(sym.tapeOperations)))]
                             ELSE symbols[i]],
                         sym)
    /\ temporalCoord' = AdvanceClock(temporalCoord)
    /\ VIBE_SPACE' = SpaceSet(VIBE_SPACE, sym.hash, Len(symbols) + 1)

\* the VibeSymbol constructor's effect on the symbol heap, the clock and the
\* Symbol Space
Constructed(sym) ==
    /\ symbols' = Append(symbols, sym)
    /\ temporalCoord' = AdvanceClock(temporalCoord)
    /\ VIBE_SPACE' = SpaceSet(VIBE_SPACE, sym.hash, Len(symbols) + 1)

\* capabilities || new Set([new VibeToken()])
DefaultCapabilities(now) ==
    {VibeToken(DefaultPermissions, now + DefaultExpiryOffset, DefaultVibeLevel)}

\* createVibeSymbol(value)
ConstructDefault(value) ==
    /\ Open
    /\ Len(symbols) < budget.symbols
    /\ Constructed(NewSymbol(value, DefaultCapabilities(temporalCoord), temporalCoord))
    /\ last' = [NoCall EXCEPT !.op = "construct", !.result = Len(symbols) + 1,
                               !.outcome = "applied"]
    /\ UNCHANGED <<tokens, maxTapeLength, budget, clears>>

\* createVibeSymbol(value, new Set([...held]))
ConstructWith(value, held) ==
    /\ Open
    /\ budget.tokens > 0
    /\ Len(symbols) < budget.symbols
    /\ Constructed(NewSymbol(value, held, temporalCoord))
    /\ last' = [NoCall EXCEPT !.op = "construct", !.result = Len(symbols) + 1,
                               !.outcome = "applied"]
    /\ UNCHANGED <<tokens, maxTapeLength, budget, clears>>

(***************************************************************************)
(* vibeTransform                                                           *)
(***************************************************************************)
\* Array.from(symbol.capabilities).some(token => token.can('write'))
hasWritePermission(symbol, now) ==
    \E tok \in symbol.capabilities : can(tok, WriteBit, now)

\* the four effect modes
TransformValue(value, req) ==
    CASE req.kind = "fn" -> ApplyFn(req.fn, value)
      [] req.kind = "set" -> req.value
      [] req.kind = "merge" -> Spread(value, req.value)
      [] OTHER -> req.value

\* vibeTransform linking the result to its own hash instead of the parent's
DeriveOwnParent(symbol, req, now, maxLen) ==
    LET tapeOp == TapeOperation("transform", req, symbol.coord)
        fresh == NewSymbol(TransformValue(symbol.value, req), symbol.capabilities, now)
        linked == [fresh EXCEPT
                     !.parentHash = fresh.hash,
                     !.history = Append(symbol.history, fresh.hash),
                     !.tapeOperations = Append(symbol.tapeOperations, tapeOp),
                     !.transformationMetadata =
                         [operation |-> req,
                          operands |-> <<symbol.hash>>,
                          structuralDiff |->
                              <<computeStructuralDiff(extractStructure(symbol.value),
                                                      extractStructure(fresh.value))>>,
                          tapeState |-> <<Len(symbol.tapeOperations)>>]]
    IN  [linked EXCEPT !.tapeOperations = pruneTapeOperations(linked, maxLen)]

\* a result symbol that is given a token of its own instead of its parent's
\* capability Set
LinkFreshCapabilities(symbol, req, now) ==
    LET tapeOp == TapeOperation("transform", req, symbol.coord)
        fresh == NewSymbol(TransformValue(symbol.value, req), DefaultCapabilities(now), now)
    IN  [fresh EXCEPT
           !.parentHash = symbol.hash,
           !.history = Append(symbol.history, symbol.hash),
           !.tapeOperations = Append(symbol.tapeOperations, tapeOp),
           !.transformationMetadata =
               [operation |-> req,
                operands |-> <<symbol.hash>>,
                structuralDiff |->
                    <<computeStructuralDiff(extractStructure(symbol.value),
                                            extractStructure(fresh.value))>>,
                tapeState |-> <<Len(symbol.tapeOperations)>>]]

\* the result symbol of vibeTransform before its tape is pruned
Link(symbol, req, now) ==
    LET tapeOp == TapeOperation("transform", req, symbol.coord)
        fresh == NewSymbol(TransformValue(symbol.value, req), symbol.capabilities, now)
    IN  [fresh EXCEPT
           !.parentHash = symbol.hash,
           !.history = Append(symbol.history, symbol.hash),
           !.tapeOperations = Append(symbol.tapeOperations, tapeOp),
           !.transformationMetadata =
               [operation |-> req,
                operands |-> <<symbol.hash>>,
                structuralDiff |->
                    <<computeStructuralDiff(extractStructure(symbol.value),
                                            extractStructure(fresh.value))>>,
                tapeState |-> <<Len(symbol.tapeOperations)>>]]

\* vibeTransform starting the result's ancestry anew at the parent
DeriveFlatAncestry(symbol, req, now, maxLen) ==
    LET linked == [Link(symbol, req, now) EXCEPT !.history = <<symbol.hash>>]
    IN  [linked EXCEPT !.tapeOperations = pruneTapeOperations(linked, maxLen)]

\* the symbol vibeTransform returns for a request that passed the gate
Derive(symbol, req, now, maxLen) ==
    LET linked == Link(symbol, req, now)
    IN  [linked EXCEPT !.tapeOperations = pruneTapeOperations(linked, maxLen)]

Transform(s, req) ==
    LET symbol == symbols[s]
    IN  IF ~hasWritePermission(symbol, temporalCoord)
        THEN \* blocked: return symbol
             /\ Open
             /\ last' = [NoCall EXCEPT !.op = "transform", !.sym = s,
                                        !.result = s, !.outcome = "blocked"]
             /\ UNCHANGED <<temporalCoord, VIBE_SPACE, symbols, tokens, maxTapeLength, budget, clears>>
        ELSE IF req.kind = "null"
        THEN \* transformation.operation on null/undefined throws a TypeError
             /\ Open
             /\ last' = [NoCall EXCEPT !.op = "transform", !.sym = s,
                                        !.outcome = "raised"]
             /\ UNCHANGED <<temporalCoord, VIBE_SPACE, symbols, tokens, maxTapeLength, budget, clears>>
        ELSE IF /\ Applicable(req, symbol.value)
                /\ Len(symbol.tapeOperations) >= maxTapeLength
                /\ pruneRaises(Link(symbol, req, temporalCoord), maxTapeLength)
        THEN \* pruneTapeOperations throws: the result symbol was constructed
             \* and registered, and is not returned
             /\ Open
             /\ Len(symbols) < budget.symbols
             /\ Constructed(Link(symbol, req, temporalCoord))
             /\ last' = [NoCall EXCEPT !.op = "transform", !.sym = s,
                                        !.outcome = "raised"]
             /\ UNCHANGED <<tokens, maxTapeLength, budget, clears>>
        ELSE /\ Open
             /\ Len(symbols) < budget.symbols
             /\ Applicable(req, symbol.value)
             /\ Constructed(Derive(symbol, req, temporalCoord, maxTapeLength))
             /\ last' = [NoCall EXCEPT !.op = "transform", !.sym = s,
                                        !.result = Len(symbols) + 1,
                                        !.outcome = "applied"]
             /\ UNCHANGED <<tokens, maxTapeLength, budget, clears>>

(***************************************************************************)
(* vibeRevert                                                              *)
(***************************************************************************)
\* the multi-step loop, from iteration i with `current` resolved so far
RECURSIVE RevertWalk(_, _, _)
RevertWalk(current, i, steps) ==
    IF i < steps /\ Len(symbols[current].history) > 0
    THEN LET parentHash == symbols[current].history[Len(symbols[current].history)]
         IN  IF parentHash \in DOMAIN VIBE_SPACE
             THEN RevertWalk(VIBE_SPACE[parentHash], i + 1, steps)
             ELSE current
    ELSE current

\* the symbol vibeRevert(symbol, steps) returns
vibeRevert(s, steps) ==
    IF symbols[s].parentHash = NoParent THEN s
    ELSE IF steps = 1 /\ symbols[s].parentHash \in DOMAIN VIBE_SPACE
    THEN VIBE_SPACE[symbols[s].parentHash]
    ELSE RevertWalk(s, 0, steps)

\* a revert that rebuilds the ancestor it found by constructing it anew
RevertRebuilding(s, steps) ==
    /\ Open
    /\ Constructed(NewSymbol(symbols[vibeRevert(s, steps)].value,
                             symbols[vibeRevert(s, steps)].capabilities, temporalCoord))
    /\ last' = [NoCall EXCEPT !.op = "revert", !.sym = s,
                               !.result = Len(symbols) + 1,
                               !.outcome = "read"]
    /\ UNCHANGED <<tokens, maxTapeLength, budget, clears>>

Revert(s, steps) ==
    /\ Open
    /\ last' = [NoCall EXCEPT !.op = "revert", !.sym = s,
                               !.result = vibeRevert(s, steps),
                               !.outcome = "read"]
    /\ UNCHANGED <<temporalCoord, VIBE_SPACE, symbols, tokens, maxTapeLength, budget, clears>>

(***************************************************************************)
(* modifySelf                                                              *)
(***************************************************************************)
\* the symbol after modifySelf(transformation): its tape has one more
\* 'write' operation and its value is replaced; hash, coord and the Symbol
\* Space entry stay
modifySelf(sym, fn) ==
    [sym EXCEPT
       !.tapeOperations = Append(@, TapeOperation("write", BareFunction(fn), sym.coord)),
       !.value = ApplyFn(fn, sym.value),
       !.transformationMetadata.structuralDiff =
           <<computeStructuralDiff(extractStructure(sym.value),
                                   extractStructure(ApplyFn(fn, sym.value)))>>]

\* symbol.modifySelf(fn)
ModifySelf(s, fn) ==
    /\ Open
    /\ Len(symbols[s].tapeOperations) < budget.selfWrites
    /\ Applicable(FnRequest(fn), symbols[s].value)
    /\ symbols' = [symbols EXCEPT ![s] = modifySelf(@, fn)]
    /\ last' = [NoCall EXCEPT !.op = "modify", !.sym = s, !.result = s,
                               !.outcome = "modified"]
    /\ UNCHANGED <<temporalCoord, VIBE_SPACE, tokens, maxTapeLength, budget, clears>>

(***************************************************************************)
(* executeStructuralRevert. The values of the model hold numbers only, so  *)
(* the call is made on symbols whose recorded diff restores nothing: a     *)
(* diff that has modifications or removals writes descriptor properties    *)
(* (lists, mappings) into the value.                                       *)
(***************************************************************************)
EmptyDiff == [additions |-> <<>>, modifications |-> <<>>, removals |-> <<>>]

\* let revertedValue = {...this.value}; the recorded diff, being empty, is
\* applied backwards without effect
revertedValue(sym) == Spread(sym.value, Obj(<<>>))

\* symbol.executeStructuralRevert()
ExecuteStructuralRevert(s) ==
    IF symbols[s].transformationMetadata.structuralDiff = <<>>
    THEN \* no structural diff available: return this
         /\ Open
         /\ last' = [NoCall EXCEPT !.op = "structuralRevert", !.sym = s,
                                    !.result = s, !.outcome = "read"]
         /\ UNCHANGED <<temporalCoord, VIBE_SPACE, symbols, tokens, maxTapeLength, budget, clears>>
    ELSE /\ Open
         /\ Len(symbols) < budget.symbols
         /\ symbols[s].transformationMetadata.structuralDiff = <<EmptyDiff>>
         /\ Constructed(NewSymbol(revertedValue(symbols[s]), symbols[s].capabilities,
                                  temporalCoord))
         /\ last' = [NoCall EXCEPT !.op = "structuralRevert", !.sym = s,
                                    !.result = Len(symbols) + 1,
                                    !.outcome = "reverted"]
         /\ UNCHANGED <<tokens, maxTapeLength, budget, clears>>

(***************************************************************************)
(* Utilities                                                               *)
(***************************************************************************)
\* clearVibeSpace()
ClearVibeSpace ==
    /\ Open
    /\ clears < budget.clears
    /\ clears' = clears + 1
    /\ VIBE_SPACE' = EmptySpace
    /\ temporalCoord' = 0
    /\ last' = [NoCall EXCEPT !.op = "clear"]
    /\ UNCHANGED <<symbols, tokens, maxTapeLength, budget>>

\* TAPE_PRUNING_CONFIG.maxTapeLength = n
SetMaxTapeLength(n) ==
    /\ Open
    /\ budget.configure
    /\ maxTapeLength # n
    /\ maxTapeLength' = n
    /\ last' = [NoCall EXCEPT !.op = "configure"]
    /\ UNCHANGED <<temporalCoord, VIBE_SPACE, symbols, tokens, budget, clears>>

\* the tokens a host constructs: a read-only one that lives long, and a
\* full-permission one that expires early
TokenInputs ==
    {<<ReadOnlyPermissions, DefaultExpiryOffset>>,
     <<DefaultPermissions, ShortExpiry>>}

Next ==
    \/ \E in \in TokenInputs : CreateToken(in[1], in[2])
    \/ \E tok \in tokens : Attenuate(tok, WriteBit)
    \/ \E tok \in tokens : CheckCan(tok)
    \/ \E v \in Values : ConstructDefault(v)
    \/ \E held \in SUBSET tokens : ConstructWith(Count(0), held)
    \/ \E s \in 1..Len(symbols), req \in budget.requests : Transform(s, req)
    \/ \E s \in 1..Len(symbols), steps \in 0..MaxSteps : Revert(s, steps)
    \/ ClearVibeSpace
    \/ \E n \in {DefaultMaxTapeLength, SmallTapeLength} : SetMaxTapeLength(n)

Spec == Init /\ [][Next]_vars

(***************************************************************************)
(* Runs over a wider set of values: numbers, mappings whose keys were      *)
(* inserted in either order, and functions.                                *)
(***************************************************************************)
IdentityValues ==
    {Num(0), Num(1), Count(0), Count(1),
     Obj(<<<<S_count, 0>>, <<S_b, 1>>>>), Obj(<<<<S_b, 1>>, <<S_count, 0>>>>),
     Fn(1), Fn(2)}

IdentityRequests ==
    {FnRequest("inc"), SetRequest(Fn(2)), SetRequest(Count(0)),
     MergeRequest(Obj(<<<<S_b, 1>>>>)), RawRequest(Num(1))}

IdentityBudget ==
    [symbols |-> MaxIdentitySymbols, tokens |-> 0, clears |-> 0,
     requests |-> IdentityRequests, configure |-> FALSE, selfWrites |-> 0]

IdentityInit ==
    /\ budget = IdentityBudget
    /\ clears = 0
    /\ temporalCoord = 0
    /\ VIBE_SPACE = EmptySpace
    /\ symbols = <<>>
    /\ tokens = {}
    /\ maxTapeLength = DefaultMaxTapeLength
    /\ last = NoCall

IdentityNext ==
    \/ \E v \in IdentityValues : ConstructDefault(v)
    \/ \E s \in 1..Len(symbols), req \in budget.requests : Transform(s, req)

IdentitySpec == IdentityInit /\ [][IdentityNext]_vars

(***************************************************************************)
(* Runs over attenuation chains: the host makes one root token and         *)
(* attenuates it and its descendants while constructions advance the       *)
(* clock.                                                                  *)
(***************************************************************************)
\* read | execute
ReadExecutePermissions == 5
\* write | execute
WriteExecuteBits == 6
NetworkBit == 8

RootPermissions == {DefaultPermissions, ReadExecutePermissions, ReadOnlyPermissions}

\* an expiry the clock reaches, one just past the attenuation offset, and the
\* default of a token made at clock 0
RootExpiries == {ShortExpiry, AttenuateExpiryOffset + 1, DefaultExpiryOffset}

\* restriction bitsets: none, write, write | execute, network
Restrictions == {0, WriteBit, WriteExecuteBits, NetworkBit}

\* vibe levels a host hands the constructor, in thousandths: none and a half
RootVibeLevels == {0, 500}

TokenBudget ==
    [symbols |-> MaxTokenSymbols, tokens |-> MaxChainTokens, clears |-> 0,
     requests |-> {}, configure |-> FALSE, selfWrites |-> 0]

TokenInit ==
    /\ budget = TokenBudget
    /\ clears = 0
    /\ temporalCoord = 0
    /\ VIBE_SPACE = EmptySpace
    /\ symbols = <<>>
    /\ tokens = {}
    /\ maxTapeLength = DefaultMaxTapeLength
    /\ last = NoCall

TokenNext ==
    \/ \E p \in RootPermissions, e \in RootExpiries : tokens = {} /\ CreateToken(p, e)
    \/ \E v \in RootVibeLevels :
          tokens = {} /\ CreateTokenAt(DefaultPermissions, DefaultExpiryOffset, v)
    \/ \E tok \in tokens, r \in Restrictions : Attenuate(tok, r)
    \/ \E tok \in tokens : CheckCan(tok)
    \/ \E v \in Values : ConstructDefault(v)

TokenSpec == TokenInit /\ [][TokenNext]_vars


(***************************************************************************)
(* Runs under one pruning configuration, fixed at the start: chains of     *)
(* transforms long enough for the tape to be pruned, with truthy and falsy *)
(* payloads, and symbols that modify themselves.                           *)
(***************************************************************************)
\* ceilings under which nothing, one entry or two entries are kept, and the
\* default
PruneLengths == {1, SmallTapeLength, SmallTapeLength + 1, DefaultMaxTapeLength}

\* a request with a truthy payload, and the falsy payload 0
PruneRequests == {FnRequest("inc"), RawRequest(Num(0))}

\* long chains of transforms, and short runs whose symbols modify
\* themselves
PruneBudgets ==
    {[symbols |-> MaxPruneSymbols, tokens |-> 0, clears |-> 0,
      requests |-> PruneRequests, configure |-> FALSE, selfWrites |-> 0],
     [symbols |-> MaxModifiedSymbols, tokens |-> 0, clears |-> 0,
      requests |-> PruneRequests, configure |-> FALSE, selfWrites |-> MaxTapeEntries]}

PruneInit ==
    /\ budget \in PruneBudgets
    /\ clears = 0
    /\ temporalCoord = 0
    /\ VIBE_SPACE = EmptySpace
    /\ symbols = <<>>
    /\ tokens = {}
    /\ maxTapeLength \in PruneLengths
    /\ last = NoCall

PruneNext ==
    \/ symbols = <<>> /\ ConstructDefault(Count(0))
    \/ \E s \in 1..Len(symbols), req \in budget.requests : Transform(s, req)
    \/ \E s \in 1..Len(symbols) : ModifySelf(s, "inc")
    \/ \E s \in 1..Len(symbols) : Revert(s, 1)

PruneSpec == PruneInit /\ [][PruneNext]_vars

(***************************************************************************)
(* Runs that revert structurally: transforms of every request mode, each   *)
(* result handed to executeStructuralRevert.                               *)
(***************************************************************************)
StructuralBudget ==
    [symbols |-> MaxStructuralSymbols, tokens |-> 0, clears |-> 0,
     requests |-> AllRequests, configure |-> FALSE, selfWrites |-> 0]

StructuralInit ==
    /\ budget = StructuralBudget
    /\ clears = 0
    /\ temporalCoord = 0
    /\ VIBE_SPACE = EmptySpace
    /\ symbols = <<>>
    /\ tokens = {}
    /\ maxTapeLength = DefaultMaxTapeLength
    /\ last = NoCall

StructuralNext ==
    \/ \E v \in Values : ConstructDefault(v)
    \/ \E s \in 1..Len(symbols), req \in budget.requests : Transform(s, req)
    \/ \E s \in 1..Len(symbols) : ExecuteStructuralRevert(s)

StructuralSpec == StructuralInit /\ [][StructuralNext]_vars

(***************************************************************************)
(* Properties                                                              *)
(***************************************************************************)
\* a symbol holds a token with the write bit whose expiry the clock has not
\* reached
WriteCapable(symbol, now) ==
    \E tok \in symbol.capabilities :
        (tok.permissions \div WriteBit) % 2 = 1 /\ tok.expiry > now

\* the last call was a transform that derived a symbol
Derived == last.op = "transform" /\ last.outcome = "applied"

BlockedTransformIsNoOp ==
    [][(last'.op = "transform" /\ ~WriteCapable(symbols[last'.sym], temporalCoord))
          => /\ last'.outcome = "blocked"
             /\ last'.result = last'.sym
             /\ UNCHANGED <<temporalCoord, VIBE_SPACE, symbols, tokens, maxTapeLength>>]_vars

\* a transform was blocked although the symbol holds a write-enabled token:
\* the token has expired
BlockedWitness ==
    /\ last.op = "transform"
    /\ last.outcome = "blocked"
    /\ \E tok \in symbols[last.sym].capabilities : BitSet(tok.permissions, WriteBit)


\* C3: a transform applies the request and derives a new symbol if and only
\* if, at the moment of the call, some token of the symbol has the write bit
\* and an expiry strictly greater than the clock.
WriteGate ==
    [][last'.op = "transform"
          => ((last'.outcome = "applied" /\ Len(symbols') = Len(symbols) + 1)
                 <=> WriteCapable(symbols[last'.sym], temporalCoord))]_vars

\* a symbol made by transforms
HasAncestry(s) == symbols[s].history # <<>>

\* the k-th most recent identity of s's ancestry
KthMostRecent(s, k) == symbols[s].history[Len(symbols[s].history) - k + 1]

\* C4: while nothing was removed from the Symbol Space, revert(s, k) for
\* 2 <= k <= length of s's ancestry returns a symbol whose identity is the
\* k-th most recent element of s's ancestry.
RevertComposes ==
    \A s \in 1..Len(symbols), k \in 2..MaxSteps :
        (clears = 0 /\ k <= Len(symbols[s].history))
            => symbols[vibeRevert(s, k)].hash = KthMostRecent(s, k)

\* the walk over s's own ancestry, most recent first, that stops at the
\* first identity missing from the Symbol Space
RECURSIVE AncestryWalk(_, _, _, _)
AncestryWalk(s, current, i, steps) ==
    IF i < steps /\ i < Len(symbols[s].history)
    THEN IF KthMostRecent(s, i + 1) \in DOMAIN VIBE_SPACE
         THEN AncestryWalk(s, VIBE_SPACE[KthMostRecent(s, i + 1)], i + 1, steps)
         ELSE current
    ELSE current

\* C5: revert(s, steps) with more steps than the ancestry resolves returns
\* the furthest resolvable ancestor, the symbol registered under the oldest
\* identity of s's ancestry while nothing was removed from the Symbol Space,
\* and the last ancestor resolved before a missing hop otherwise.
RevertDegrades ==
    \A s \in 1..Len(symbols), steps \in 1..MaxSteps :
        (HasAncestry(s) /\ steps > Len(symbols[s].history))
            => /\ vibeRevert(s, steps) = AncestryWalk(s, s, 0, steps)
               /\ clears = 0 => vibeRevert(s, steps) = VIBE_SPACE[symbols[s].history[1]]

\* C6: a revert leaves the Symbol Space, the clock and the symbols as they
\* were, allocates no symbol, and returns the symbol it was given or one
\* registered in the Symbol Space.
RevertIsPureLookup ==
    [][last'.op = "revert"
          => /\ UNCHANGED <<temporalCoord, VIBE_SPACE, symbols, tokens>>
             /\ \/ last'.result = last'.sym
                \/ \E h \in DOMAIN VIBE_SPACE : VIBE_SPACE[h] = last'.result]_vars

\* a revert returned a registered symbol other than the one it was given
RevertWitness ==
    /\ last.op = "revert"
    /\ last.result # last.sym
    /\ VIBE_SPACE[symbols[last.result].hash] = last.result


\* the step is a construct call or a transform that derives a symbol
Constructs == last'.outcome = "applied"

\* the symbol the step constructs
Newest == symbols'[Len(symbols')]

\* C7: a construct call, and the one construction inside a transform that
\* derives a symbol, advances the clock by exactly one and gives the new
\* symbol the clock value from before the advance, which is less than the
\* clock read after the call.
ConstructAdvancesClock ==
    [][Constructs
          => /\ temporalCoord' = temporalCoord + 1
             /\ Len(symbols') = Len(symbols) + 1
             /\ last'.result = Len(symbols')
             /\ Newest.coord = temporalCoord
             /\ Newest.coord < temporalCoord']_vars

\* a transform derived a symbol after the clock had already advanced
ConstructClockWitness ==
    /\ Derived
    /\ temporalCoord > 1
    /\ symbols[last.result].coord = temporalCoord - 1

\* an earlier symbol's coordinate is below the one the step assigns
NewestIsLatest == \A i \in 1..Len(symbols) : symbols[i].coord < Newest.coord

\* C8 as stated: over all operations, clearVibeSpace included, the clock
\* never decreases and a symbol constructed later gets a coordinate greater
\* than every earlier symbol's.
ClockMonotonic ==
    [][/\ temporalCoord' >= temporalCoord
       /\ Constructs => NewestIsLatest]_vars

\* C8 amended: no operation other than clearVibeSpace decreases the clock,
\* and clearVibeSpace resets it to 0; as long as clearVibeSpace has not been
\* called, a symbol constructed later gets a coordinate greater than every
\* earlier symbol's.
ClockMonotonicUntilCleared ==
    [][/\ last'.op # "clear" => temporalCoord' >= temporalCoord
       /\ last'.op = "clear" => temporalCoord' = 0
       /\ (Constructs /\ clears' = 0) => NewestIsLatest]_vars

\* clearVibeSpace has put the clock back below a coordinate already given out
ClockResetWitness ==
    /\ last.op = "clear"
    /\ symbols # <<>>
    /\ temporalCoord <= symbols[Len(symbols)].coord

\* C9: right after a construct call or a transform that derives a symbol
\* returned x, the Symbol Space has x's identity as a key and stores x itself
\* under it.
ConstructionRegisters ==
    last.outcome = "applied"
        => /\ symbols[last.result].hash \in DOMAIN VIBE_SPACE
           /\ VIBE_SPACE[symbols[last.result].hash] = last.result

\* the symbol just constructed has the identity of an earlier symbol
RegistersWitness ==
    /\ last.outcome = "applied"
    /\ \E i \in 1..Len(symbols) :
          i # last.result /\ symbols[i].hash = symbols[last.result].hash

\* the number of entries of the Symbol Space
SpaceSize(space) == Cardinality(DOMAIN space)

\* C10 as stated: every construct call and every transform that derives a
\* symbol increases the number of entries of the Symbol Space by one.
SpaceGrowsByOne ==
    [][Constructs => SpaceSize(VIBE_SPACE') = SpaceSize(VIBE_SPACE) + 1]_vars

\* C10 amended: a construction adds one entry when the new symbol's identity
\* is not yet a key, and otherwise replaces the symbol stored under that key
\* and leaves the number of entries as it was; no other entry changes.
SpaceGrowsByNewIdentity ==
    [][Constructs
          => /\ SpaceSize(VIBE_SPACE') =
                  SpaceSize(VIBE_SPACE) + (IF Newest.hash \in DOMAIN VIBE_SPACE THEN 0 ELSE 1)
             /\ VIBE_SPACE'[Newest.hash] = Len(symbols')
             /\ \A h \in DOMAIN VIBE_SPACE : h # Newest.hash => VIBE_SPACE'[h] = VIBE_SPACE[h]]_vars

\* a construction replaced an entry: the space holds fewer entries than
\* symbols were constructed, though nothing was removed
SpaceGrowthWitness ==
    /\ last.outcome = "applied"
    /\ clears = 0
    /\ SpaceSize(VIBE_SPACE) < Len(symbols)


\* C11: no step other than clearVibeSpace removes a key from the Symbol
\* Space: every identity that is a key before a construct, transform, revert,
\* attenuate, token check or pruning is a key after it.
NoImplicitEviction ==
    [][last'.op # "clear" => DOMAIN VIBE_SPACE \subseteq DOMAIN VIBE_SPACE']_vars

\* a transform pruned the log it derived while every symbol constructed so
\* far still has its identity as a key
NoEvictionWitness ==
    /\ Derived
    /\ clears = 0
    /\ Len(symbols[last.result].tapeOperations) < Len(symbols[last.result].history)
    /\ \A i \in 1..Len(symbols) : symbols[i].hash \in DOMAIN VIBE_SPACE

\* C12: a transform of s that derives a symbol c gives c the parent
\* s.identity and the ancestry of s followed by s.identity; when the log stays
\* within the ceiling, c's log is the log of s followed by one transform entry
\* positioned at s's coordinate; s itself is left as it was.
Derivation ==
    [][(last'.op = "transform" /\ last'.outcome = "applied")
          => LET s == symbols[last'.sym]
                 c == symbols'[last'.result]
                 n == Len(s.tapeOperations)
             IN  /\ c.parentHash = s.hash
                 /\ c.history = s.history \o <<s.hash>>
                 /\ n + 1 <= maxTapeLength
                       => /\ Len(c.tapeOperations) = n + 1
                          /\ SubSeq(c.tapeOperations, 1, n) = s.tapeOperations
                          /\ c.tapeOperations[n + 1].type = "transform"
                          /\ c.tapeOperations[n + 1].position = s.coord
                 /\ symbols'[last'.sym] = s]_vars

\* a transform derived a symbol of ancestry two or more whose log holds one
\* entry per ancestor
DerivationWitness ==
    /\ Derived
    /\ Len(symbols[last.result].history) >= 2
    /\ Len(symbols[last.result].tapeOperations) = Len(symbols[last.result].history)


\* the keys of a mapping value
Keys(v) == {v.f[i][1] : i \in 1..Len(v.f)}

\* new holds the fields of old overridden and extended by those of data
Merged(old, data, new) ==
    /\ new.t = "object"
    /\ Keys(new) = Keys(old) \cup Keys(data)
    /\ \A k \in Keys(data) : GetKey(new.f, k) = GetKey(data.f, k)
    /\ \A k \in Keys(old) \ Keys(data) : GetKey(new.f, k) = GetKey(old.f, k)

\* the value the request's shape calls for
ModeApplied(old, req, new) ==
    CASE req.kind = "fn" ->
             new = Obj(<<<<S_count, GetKey(old.f, S_count) + 1>>>>)
      [] req.kind = "set" -> new = req.value
      [] req.kind = "merge" -> Merged(old, req.value, new)
      [] req.kind = "raw" -> new = req.value
      [] OTHER -> FALSE

\* C13: every transform that is not blocked applies exactly the effect mode
\* its request's shape selects: operation(old value) for a function, the
\* request's value for 'set', the old fields overridden and extended by the
\* data fields for 'merge', and the request itself for any other request.
EffectModes ==
    [][(last'.op = "transform" /\ last'.outcome # "blocked")
          => /\ last'.outcome = "applied"
             /\ ModeApplied(symbols[last'.sym].value,
                            symbols'[last'.result].transformationMetadata.operation,
                            symbols'[last'.result].value)]_vars

\* C14: a transform of a write-capable symbol returns a symbol whatever the
\* request is, the absent request included: no transform call raises.
TransformNeverRaises == last.op = "transform" => last.outcome # "raised"


\* two values of the same shape and content: numbers of the same magnitude,
\* the same function, or mappings with the same keys and the same value per
\* key
SameValue(v, w) ==
    /\ v.t = w.t
    /\ v.t = "object"
          => /\ Keys(v) = Keys(w)
             /\ \A k \in Keys(v) : GetKey(v.f, k) = GetKey(w.f, k)
    /\ v.t # "object" => v.n = w.n

\* C15: two values that differ in shape or content get different identities;
\* in particular a transform whose result's value differs from the parent's
\* returns a symbol of another identity than the parent's.
IdentitySeparates ==
    \A i, j \in 1..Len(symbols) :
        ~SameValue(symbols[i].value, symbols[j].value) => symbols[i].hash # symbols[j].hash

\* C16: two mapping values with the same keys and the same value per key get
\* the same identity, whatever the order their keys were inserted in.
StructuralEqualityGivesIdentity ==
    \A i, j \in 1..Len(symbols) :
        (symbols[i].value.t = "object" /\ SameValue(symbols[i].value, symbols[j].value))
            => symbols[i].hash = symbols[j].hash

\* C17: the identity a construction assigns depends on the value alone: the
\* new symbol has the identity of every earlier symbol of the same value,
\* whatever the clock, the Symbol Space, the capability sets and the
\* ancestries were when each was made.
IdentityOfValueAlone ==
    [][Constructs
          => \A i \in 1..Len(symbols) :
                 symbols[i].value = Newest.value => symbols[i].hash = Newest.hash]_vars

\* a transform reproduced the value of a directly constructed symbol that has
\* another coordinate and another capability set, under the same identity
IdentityWitness ==
    /\ Derived
    /\ \E i \in 1..Len(symbols) :
          /\ symbols[i].parentHash = NoParent
          /\ symbols[i].value = symbols[last.result].value
          /\ symbols[i].capabilities # symbols[last.result].capabilities
          /\ symbols[i].coord # symbols[last.result].coord
          /\ symbols[i].hash = symbols[last.result].hash


\* the permission bits of a bitset
PermissionBits == {1, 2, 4, 8}
Bits(p) == {b \in PermissionBits : (p \div b) % 2 = 1}

\* the token the step hands out
Attenuated == tokens' \ tokens

\* the token the host made itself
IsRoot(t) == t.attenuationChain = <<>>

\* C18: attenuate(t, r) has no permission t lacks and no permission named in
\* r; so every token of a chain has only permissions the chain's root has.
AttenuationNeverWidens ==
    [][\A t \in tokens, r \in Restrictions :
          Attenuate(t, r)
              => /\ \A child \in Attenuated :
                       /\ Bits(child.permissions) \subseteq Bits(t.permissions)
                       /\ Bits(child.permissions) \cap Bits(r) = {}
                 /\ \A root \in tokens', d \in tokens' :
                       IsRoot(root) => Bits(d.permissions) \subseteq Bits(root.permissions)]_vars

\* a grandchild of a root that lacks the network bit was restricted by that
\* very bit
NeverWidensWitness ==
    \E t \in tokens :
        /\ Len(t.attenuationChain) = 2
        /\ NetworkBit \in {t.attenuationChain[1], t.attenuationChain[2]}
        /\ \E root \in tokens : IsRoot(root) /\ root.permissions = ReadExecutePermissions

\* C19 as stated: attenuate(t, r) has a permission set strictly smaller than
\* t's, for every r.
AttenuationStrictlyNarrows ==
    [][\A t \in tokens, r \in Restrictions :
          Attenuate(t, r)
              => \A child \in Attenuated :
                     /\ Bits(child.permissions) \subseteq Bits(t.permissions)
                     /\ Bits(child.permissions) # Bits(t.permissions)]_vars

\* C19 amended: attenuate(t, r) has exactly the permissions of t not named in
\* r: a strict subset when r names a permission t has, and t's own permission
\* set when r is empty or disjoint from it.
AttenuationRemovesNamed ==
    [][\A t \in tokens, r \in Restrictions :
          Attenuate(t, r)
              => \A child \in Attenuated :
                     /\ Bits(child.permissions) = Bits(t.permissions) \ Bits(r)
                     /\ (Bits(child.permissions) # Bits(t.permissions))
                           <=> (Bits(r) \cap Bits(t.permissions) # {})]_vars

\* a token attenuated with the empty restriction has its root's permissions
RemovesNamedWitness ==
    \E child \in tokens, root \in tokens :
        /\ IsRoot(root)
        /\ child.attenuationChain = <<0>>
        /\ child.permissions = root.permissions
        /\ root.permissions # 0

\* t grants the operation of the bit at the clock value
Grants(t, bit, clock) == bit \in Bits(t.permissions) /\ clock < t.expiry

\* the clock values at which a token's grants change, and their neighbours
Around(t) == {c \in {t.expiry - 1, t.expiry, t.expiry + 1} : c >= 0}

\* C20: attenuate(t, r) expires no later than t; so the child of an expired
\* token is expired, and at every clock value the child grants an operation
\* only if t grants it.
AttenuationNeverExtends ==
    [][\A t \in tokens, r \in Restrictions :
          Attenuate(t, r)
              => \A child \in Attenuated :
                     /\ child.expiry <= t.expiry
                     /\ temporalCoord >= t.expiry => temporalCoord >= child.expiry
                     /\ \A clock \in {0, temporalCoord} \cup Around(t) \cup Around(child),
                           bit \in PermissionBits :
                           Grants(child, bit, clock) => Grants(t, bit, clock)]_vars

\* an attenuation was made when every token, the root included, had expired
NeverExtendsWitness ==
    /\ last.op = "attenuate"
    /\ \E root \in tokens : IsRoot(root) /\ root.permissions = DefaultPermissions
    /\ \A t \in tokens : temporalCoord >= t.expiry


\* C21 as stated: attenuate(t, r) has an intensity strictly below t's, for
\* every t, a token of intensity 0 included.
AttenuationStrictlyDecays ==
    [][\A t \in tokens, r \in Restrictions :
          Attenuate(t, r)
              => \A child \in Attenuated : child.vibeLevel < t.vibeLevel]_vars

\* C21 amended: the intensity of attenuate(t, r) is t's intensity times 0.8,
\* whatever t's expiry and permissions: strictly below t's when t's is
\* positive, and 0 when t's is 0.
AttenuationDecays ==
    [][\A t \in tokens, r \in Restrictions :
          Attenuate(t, r)
              => \A child \in Attenuated :
                     /\ child.vibeLevel * DecayDenominator = t.vibeLevel * DecayNumerator
                     /\ t.vibeLevel > 0 => child.vibeLevel < t.vibeLevel
                     /\ t.vibeLevel = 0 => child.vibeLevel = 0]_vars

\* two attenuations from the default level 1.0 have left 0.64
DecaysWitness ==
    /\ last.op = "attenuate"
    /\ \E t \in tokens : Len(t.attenuationChain) = 2 /\ t.vibeLevel = 640


\* C22: can, isExpired and attenuate leave every existing token, the receiver
\* included, as it was (permissions, expiry, intensity, attenuation chain),
\* and so the capability sets holding them; attenuate hands out one token
\* that did not exist before, whose chain is the receiver's chain followed by
\* the given restrictions.
TokenOperationsDoNotMutate ==
    [][/\ last'.op = "can" => tokens' = tokens /\ symbols' = symbols
       /\ last'.op = "attenuate"
             => /\ tokens \subseteq tokens'
                /\ symbols' = symbols
                /\ Cardinality(Attenuated) = 1
                /\ \E t \in tokens, r \in Restrictions :
                       \A child \in Attenuated :
                           /\ child.attenuationChain = Append(t.attenuationChain, r)
                           /\ Len(child.attenuationChain) = Len(t.attenuationChain) + 1]_vars

\* a token restricted by write was attenuated again, by network: it is
\* still there with its one-entry chain, beside its root and its child
DoNotMutateWitness ==
    /\ last.op = "attenuate"
    /\ \E root \in tokens, t \in tokens, child \in tokens :
          /\ IsRoot(root) /\ root.permissions = DefaultPermissions
          /\ t.attenuationChain = <<WriteBit>>
          /\ t.permissions = DefaultPermissions - WriteBit
          /\ child.attenuationChain = <<WriteBit, NetworkBit>>


\* the step is a transform that returned a new symbol
Transforms == last'.op = "transform" /\ last'.outcome = "applied"

\* the symbol the transform was given and the symbol it returned
Parent == symbols[last'.sym]
Result == symbols'[last'.result]

\* the returned symbol with the log the transform gave it before pruning: the
\* parent's log followed by the entry of this transform
Unpruned ==
    [Result EXCEPT
       !.tapeOperations =
           Append(Parent.tapeOperations,
                  TapeOperation("transform", Result.transformationMetadata.operation,
                                Parent.coord))]

LogLength == Len(Unpruned.tapeOperations)

\* the score of the entry at 1-based position i of the log before pruning
Score(i) == computeCausalRelevance(Unpruned, Unpruned.tapeOperations[i], i - 1)

\* the entries at the positions K of the log before pruning
EntriesAt(K) == {Unpruned.tapeOperations[i] : i \in K}

\* the returned log consists of k entries of the log before pruning, none of
\* them scoring below an entry left out
KeepsTop(k) ==
    /\ Len(Result.tapeOperations) = k
    /\ \E K \in SUBSET (1..LogLength) :
          /\ Cardinality(K) = k
          /\ {Result.tapeOperations[j] : j \in 1..k} = EntriesAt(K)
          /\ \A i \in K, j \in (1..LogLength) \ K : Score(i) >= Score(j)

\* C23 as stated: a log of length n above the ceiling is cut to its
\* floor(0.8 * n) highest-scoring entries, under every ceiling; a log within
\* the ceiling is left as it is.
PruningKeepsShareOfLog ==
    [][Transforms
          => IF LogLength > maxTapeLength
             THEN KeepsTop((LogLength * KeepNumerator) \div KeepDenominator)
             ELSE Result.tapeOperations = Unpruned.tapeOperations]_vars

\* C23 amended: a log of length n above the ceiling is cut to its
\* floor(0.8 * ceiling) highest-scoring entries; a log within the ceiling is
\* left as it is.
PruningKeepsShareOfCeiling ==
    [][Transforms
          => IF LogLength > maxTapeLength
             THEN KeepsTop((maxTapeLength * KeepNumerator) \div KeepDenominator)
             ELSE Result.tapeOperations = Unpruned.tapeOperations]_vars

\* a transform of a symbol whose log was as long as the ceiling returned a
\* symbol with 80% of the ceiling's entries, more than one
KeepsShareWitness ==
    /\ last.op = "transform" /\ last.outcome = "applied"
    /\ maxTapeLength = SmallTapeLength + 1
    /\ Len(symbols[last.sym].tapeOperations) = maxTapeLength
    /\ Len(symbols[last.result].tapeOperations)
          = (maxTapeLength * KeepNumerator) \div KeepDenominator


\* the position an entry had in the log before pruning
OriginalPosition(entry) ==
    CHOOSE i \in 1..LogLength : Unpruned.tapeOperations[i] = entry

\* C24: after pruning, any two retained entries are in the order they had in
\* the log before pruning.
PruningOrderStable ==
    [][Transforms /\ LogLength > maxTapeLength
          => \A j, k \in 1..Len(Result.tapeOperations) :
                 j < k => OriginalPosition(Result.tapeOperations[j])
                            < OriginalPosition(Result.tapeOperations[k])]_vars


\* C25: whenever pruning shortens a log, the entry appended by the transform
\* that was just made is among the retained entries.
PruningPreservesRecency ==
    [][Transforms /\ LogLength > maxTapeLength
          => \E j \in 1..Len(Result.tapeOperations) :
                 Result.tapeOperations[j] = Unpruned.tapeOperations[LogLength]]_vars


\* C26: a pruning changes nothing but the log of the symbol being returned.
\* That symbol has the value, identity, capability set, parent and ancestry
\* the transform gave it, and its log holds entries of the log before
\* pruning only; the Symbol Space gained the returned symbol's entry and the
\* clock advanced by the one construction; every other symbol, the parent
\* included, is as it was, log and all.
PruningTouchesOnlyTheLog ==
    [][Transforms /\ LogLength > maxTapeLength
          => /\ Result.value = TransformValue(Parent.value,
                                              Result.transformationMetadata.operation)
             /\ Result.hash = SymbolHash(Result.value)
             /\ Result.capabilities = Parent.capabilities
             /\ Result.parentHash = Parent.hash
             /\ Result.history = Append(Parent.history, Parent.hash)
             /\ Result.coord = temporalCoord
             /\ \A j \in 1..Len(Result.tapeOperations) :
                    Result.tapeOperations[j] \in EntriesAt(1..LogLength)
             /\ temporalCoord' = temporalCoord + 1
             /\ DOMAIN VIBE_SPACE' = DOMAIN VIBE_SPACE \cup {Result.hash}
             /\ VIBE_SPACE'[Result.hash] = last'.result
             /\ \A h \in DOMAIN VIBE_SPACE \ {Result.hash} : VIBE_SPACE'[h] = VIBE_SPACE[h]
             /\ Len(symbols') = Len(symbols) + 1
             /\ \A i \in 1..Len(symbols) : symbols'[i] = symbols[i]
             /\ maxTapeLength' = maxTapeLength]_vars

\* a pruning shortened the returned symbol's log below its parent's, which
\* is still as long as the ceiling
TouchesOnlyTheLogWitness ==
    /\ last.op = "transform" /\ last.outcome = "applied"
    /\ Len(symbols[last.sym].tapeOperations) = maxTapeLength
    /\ Len(symbols[last.result].tapeOperations) < maxTapeLength
    /\ Len(symbols[last.result].tapeOperations) > 0
    /\ symbols[last.result].parentHash = symbols[last.sym].hash


\* C27: under the pruning configuration fixed at the start, no symbol's
\* operation log is ever longer than the ceiling.
LogSelfBounding ==
    \A i \in 1..Len(symbols) : Len(symbols[i].tapeOperations) <= maxTapeLength


\* C28: no step changes the value or the identity of a symbol that exists,
\* and every symbol registered in the Symbol Space is stored under the
\* identity hash of the value it has.
PublishedSymbolsImmutable ==
    [][/\ \A i \in 1..Len(symbols) :
              i <= Len(symbols') => /\ symbols'[i].value = symbols[i].value
                                    /\ symbols'[i].hash = symbols[i].hash
       /\ \A h \in DOMAIN VIBE_SPACE' :
              /\ symbols'[VIBE_SPACE'[h]].hash = h
              /\ SymbolHash(symbols'[VIBE_SPACE'[h]].value) = h]_vars


\* the structural diff the transform recorded on the symbol it returned
RecordedDiff == Result.transformationMetadata.structuralDiff[1]

\* the members of a sequence
Members(seq) == {seq[i] : i \in 1..Len(seq)}

\* C29: the diff a transform from a mapping to a mapping records is the
\* key-level difference of the two values: additions are the keys of the
\* child's value only, removals the key/value pairs of the parent's value
\* only, modifications the (key, old, new) triples of the keys of both whose
\* value changed.
StructuralDiffIsKeyLevel ==
    [][Transforms /\ Parent.value.t = "object" /\ Result.value.t = "object"
          => /\ Members(RecordedDiff.additions) = Keys(Result.value) \ Keys(Parent.value)
             /\ Members(RecordedDiff.removals)
                    = {[path |-> k, value |-> NumStr(GetKey(Parent.value.f, k))] :
                          k \in Keys(Parent.value) \ Keys(Result.value)}
             /\ Members(RecordedDiff.modifications)
                    = {[path |-> k,
                        oldValue |-> NumStr(GetKey(Parent.value.f, k)),
                        newValue |-> NumStr(GetKey(Result.value.f, k))] :
                          k \in {j \in Keys(Parent.value) \cap Keys(Result.value) :
                                    GetKey(Parent.value.f, j) # GetKey(Result.value.f, j)}}]_vars


\* C30: every entry of every symbol's operation log carries an inverse
\* entry, the entry a transform appends included.
EveryEntryHasInverse ==
    \A i \in 1..Len(symbols) :
        \A j \in 1..Len(symbols[i].tapeOperations) :
            symbols[i].tapeOperations[j].hasInverse


\* C31: executeStructuralRevert on a symbol that a transform derived from a
\* parent whose value is a mapping returns a symbol with the parent's value
\* and the parent's identity.
StructuralRevertRestoresParent ==
    [][last'.op = "structuralRevert" /\ symbols[last'.sym].parentHash # NoParent
          => \A i \in 1..Len(symbols) :
                 (symbols[i].hash = symbols[last'.sym].parentHash
                    /\ symbols[i].value.t = "object")
                     => /\ symbols'[last'.result].value = symbols[i].value
                        /\ symbols'[last'.result].hash = symbols[i].hash]_vars


\* C32: the symbol that revert(s, steps) returns for a symbol s derived by
\* transforms holds the capability set s holds.
RevertPreservesCapabilities ==
    (last.op = "revert" /\ symbols[last.sym].parentHash # NoParent)
        => symbols[last.result].capabilities = symbols[last.sym].capabilities


\* the parent identity is absent exactly when the ancestry is empty, and is
\* otherwise the ancestry's last element
ParentMatchesAncestry(sym) ==
    /\ (sym.parentHash = NoParent) <=> (sym.history = <<>>)
    /\ sym.history # <<>> => sym.parentHash = sym.history[Len(sym.history)]

\* C33: every symbol a construct or a transform produces has its parent
\* identity absent exactly when its ancestry is empty and equal to the
\* ancestry's last element otherwise; a construct produces a symbol of empty
\* ancestry and a transform one whose ancestry is one longer than its
\* parent's, so the ancestry's length is the number of transforms from the
\* root.
ParentAncestryConsistent ==
    [][/\ \A i \in 1..Len(symbols') : ParentMatchesAncestry(symbols'[i])
       /\ (last'.op = "construct" /\ Constructs) => Newest.history = <<>>
       /\ Transforms
             => /\ Len(Result.history) = Len(Parent.history) + 1
                /\ Result.parentHash = Parent.hash]_vars

\* a transform of a symbol that was itself derived from a root: the result
\* is two transforms from the root and its ancestry has two elements
ParentAncestryWitness ==
    /\ Derived
    /\ Len(symbols[last.result].history) = 2
    /\ symbols[last.result].parentHash = symbols[last.sym].hash
    /\ Len(symbols[last.sym].history) = 1
    /\ \E i \in 1..Len(symbols) :
          /\ symbols[i].history = <<>>
          /\ symbols[i].hash = symbols[last.sym].parentHash


(***************************************************************************)
(* Expiry over time                                                        *)
(***************************************************************************)
\* every token the host or a symbol holds
HeldTokens == tokens \cup UNION {symbols[s].capabilities : s \in DOMAIN symbols}

StaysExpired ==
    \A t \in HeldTokens : isExpired(t, temporalCoord) => isExpired(t, temporalCoord')

\* C34 as stated: a token that is expired stays expired across every public
\* operation, clearVibeSpace included, so a transform blocked by expiry stays
\* blocked.
ExpiryPermanent == [][StaysExpired]_vars

\* C34: a token that is expired stays expired across every public operation
\* other than clearVibeSpace; clearVibeSpace sets the clock to 0, after which
\* exactly the tokens with expiry <= 0 are expired.
ExpiryPermanentUntilCleared ==
    [][/\ last'.op # "clear" => StaysExpired
       /\ last'.op = "clear" =>
              \A t \in HeldTokens : isExpired(t, temporalCoord') <=> t.expiry <= 0]_vars

\* a symbol whose tokens were all expired from the moment it was constructed
\* has been transformed after a clearVibeSpace
ExpiryRevivedWitness ==
    /\ clears >= 1
    /\ last.op = "transform"
    /\ last.outcome = "applied"
    /\ symbols[last.sym].capabilities # {}
    /\ \A t \in symbols[last.sym].capabilities : t.expiry <= symbols[last.sym].coord + 1


(***************************************************************************)
(* Runs whose tokens expire within the run: the host makes tokens with     *)
(* expiries a few ticks away, builds symbols on them and transforms the    *)
(* results for as long as it can; the Symbol Space is never cleared.       *)
(***************************************************************************)
ExpiryInputs ==
    {<<DefaultPermissions, ShortExpiry>>,
     <<DefaultPermissions, LongExpiry>>,
     <<ReadOnlyPermissions, DefaultExpiryOffset>>}

ExpiryBudget ==
    [symbols |-> MaxExpirySymbols, tokens |-> MaxTokens, clears |-> 0,
     requests |-> {FnRequest("inc"), NullRequest}, configure |-> FALSE,
     selfWrites |-> 0]

ExpiryInit ==
    /\ budget = ExpiryBudget
    /\ clears = 0
    /\ temporalCoord = 0
    /\ VIBE_SPACE = EmptySpace
    /\ symbols = <<>>
    /\ tokens = {}
    /\ maxTapeLength = DefaultMaxTapeLength
    /\ last = NoCall

ExpiryNext ==
    \/ \E in \in ExpiryInputs : CreateToken(in[1], in[2])
    \/ ConstructDefault(Count(0))
    \/ \E held \in SUBSET tokens : ConstructWith(Count(0), held)
    \/ \E s \in 1..Len(symbols), req \in budget.requests : Transform(s, req)

ExpirySpec == ExpiryInit /\ [][ExpiryNext]_vars


(***************************************************************************)
(* Transform chains under expiring tokens                                  *)
(***************************************************************************)
\* the greatest expiry among the tokens of a non-empty capability Set
GreatestExpiry(capabilities) ==
    CHOOSE e \in {t.expiry : t \in capabilities} :
        \A t \in capabilities : t.expiry <= e

\* the symbol a derived symbol was transformed from: its newest log entry
\* carries that symbol's coordinate
ChainParent(s) ==
    CHOOSE p \in DOMAIN symbols :
        symbols[p].coord =
            symbols[s].tapeOperations[Len(symbols[s].tapeOperations)].position

\* a symbol and the symbols it descends from
RECURSIVE ChainOf(_)
ChainOf(s) ==
    IF symbols[s].parentHash = NoParent THEN {s}
    ELSE {s} \cup ChainOf(ChainParent(s))

\* the successful transforms of a chain, counted from the one that produced d
\* (at clock d.coord) up to the one that produced its descendant s, number at
\* most E - d.coord
ChainWithinExpiry ==
    \A s \in DOMAIN symbols : \A d \in ChainOf(s) :
        symbols[d].parentHash # NoParent =>
            /\ symbols[s].capabilities # {}
            /\ Len(symbols[s].history) - Len(symbols[d].history) + 1
                   <= GreatestExpiry(symbols[s].capabilities) - symbols[d].coord

\* the clock has reached every expiry of the symbol's tokens
AllExpired(sym, now) ==
    sym.capabilities = {} \/ now >= GreatestExpiry(sym.capabilities)

\* C35: without clearVibeSpace, a chain of transforms started at clock c on
\* tokens of greatest expiry E succeeds at most E - c times: every success
\* advances the clock by one and hands the same tokens to the result, and
\* once the clock has reached E a transform returns its input and changes
\* nothing. A root constructed with the default token can be followed by at
\* most DefaultExpiryOffset - 1 = 999 successes.
TransformChainsBounded ==
    [][/\ ChainWithinExpiry'
       /\ (last'.op = "transform" /\ last'.outcome = "applied") =>
              /\ temporalCoord' = temporalCoord + 1
              /\ symbols'[last'.result].capabilities = symbols[last'.sym].capabilities
              /\ symbols'[last'.result].coord = temporalCoord
       /\ (last'.op = "transform" /\ AllExpired(symbols[last'.sym], temporalCoord)) =>
              /\ last'.outcome = "blocked"
              /\ last'.result = last'.sym
              /\ UNCHANGED <<temporalCoord, VIBE_SPACE, symbols, tokens>>
       /\ (last'.op = "construct"
             /\ symbols'[last'.result].capabilities = DefaultCapabilities(temporalCoord)) =>
              GreatestExpiry(symbols'[last'.result].capabilities) - temporalCoord'
                  = DefaultExpiryOffset - 1]_vars

\* a chain that used every tick its tokens allowed, from the clock value just
\* after its root was constructed, and is blocked at its latest result
ChainExhaustedWitness ==
    /\ last.op = "transform"
    /\ last.outcome = "blocked"
    /\ symbols[last.sym].parentHash # NoParent
    /\ \E tok \in symbols[last.sym].capabilities : BitSet(tok.permissions, WriteBit)
    /\ \E r \in ChainOf(last.sym) :
          /\ symbols[r].parentHash = NoParent
          /\ Len(symbols[last.sym].history) >= 2
          /\ Len(symbols[last.sym].history) =
                 GreatestExpiry(symbols[last.sym].capabilities) - (symbols[r].coord + 1)

====
